---- MODULE Spec2Model ----
(***************************************************************************)
(* State-machine model of the recommendation service of src/main.py:       *)
(* the module globals (model, user_to_idx, item_to_idx, idx_to_item,       *)
(* product_lookup, train_matrix), the two files (DATA_FILE, LOG_FILE) and  *)
(* the request handlers log_action, trigger_retrain and                    *)
(* get_recommendations, which FastAPI runs on a thread pool (they are      *)
(* plain "def" endpoints), so their reads and writes of the globals and    *)
(* of the log file interleave.  startup_event runs train_model once,       *)
(* before any request is served.                                           *)
(***************************************************************************)
EXTENDS Integers, Sequences, FiniteSets, TLC

\* ---------------------------------------------------------------- bounds

\* log_action calls made in one behaviour without get_recommendations
MaxLogCalls == 2

\* trigger_retrain calls made in one behaviour without get_recommendations
MaxRetrainCalls == 2

\* log_action, trigger_retrain and get_recommendations calls made in one
\* behaviour with all three kinds of client
MaxServeLogCalls == 1

MaxServeRetrainCalls == 1

MaxRecCalls == 1

\* ... and trigger_retrain calls in the behaviours of SpecRepeat
MaxRepeatCalls == 3

\* ------------------------------------------------------------- constants

\* model.recommend(..., N=5)
NRec == 5

\* The value pandas gives a weight that weight_map does not define (NaN).
NaN == -1

\* weight_map = {'view': 1.0, 'cart': 10.0, 'purchase': 50.0}; Series.map
\* gives NaN for a key the mapping lacks.
weight_map(event_type) ==
    CASE event_type = "view" -> 1
      [] event_type = "cart" -> 10
      [] event_type = "purchase" -> 50
      [] OTHER -> NaN

\* float addition with NaN absorbing
AddW(a, b) == IF a = NaN \/ b = NaN THEN NaN ELSE a + b

\* ------------------------------------------------------------ input data

\* brand / category_code value of a row that has none (NaN in the frame)
NoValue == "nan"

\* The rows of DATA_FILE, in file order.  Log rows carry no brand,
\* category_code or price column, so pandas fills them with NaN on concat.
History ==
    << [user_id |-> 2, product_id |-> 105, weight |-> 50,
        brand |-> "samsung", category_code |-> <<"electronics", "smartphone">>, price |-> 300],
       [user_id |-> 1, product_id |-> 100, weight |-> 1,
        brand |-> "generic", category_code |-> <<"appliances", "kitchen", "washer">>, price |-> 120],
       [user_id |-> 1, product_id |-> 100, weight |-> 10,
        brand |-> "bosch", category_code |-> <<"appliances", "kitchen", "washer">>, price |-> 125],
       [user_id |-> 1, product_id |-> 101, weight |-> 1,
        brand |-> NoValue, category_code |-> <<"computers", "notebook">>, price |-> 900],
       [user_id |-> 2, product_id |-> 102, weight |-> 1,
        brand |-> "apple", category_code |-> <<"electronics", "audio", "head_phone">>, price |-> NaN],
       [user_id |-> 2, product_id |-> 103, weight |-> 10,
        brand |-> "lg", category_code |-> <<"electronics", "tv">>, price |-> 500],
       [user_id |-> 2, product_id |-> 104, weight |-> 1,
        brand |-> "sony", category_code |-> <<"electronics", "tv">>, price |-> 450],
       [user_id |-> 2, product_id |-> 106, weight |-> 1,
        brand |-> "hp", category_code |-> <<"computers", "notebook">>, price |-> 700] >>

\* UserAction bodies the clients send: user_id and product_id are ints,
\* event_type is any string ("click" stands for one outside weight_map).
\* User 1 and product 100 are in DATA_FILE, user 3 and product 107 are not.
LogInputs ==
    { [user_id |-> 1, product_id |-> 100, event_type |-> "cart"],
      [user_id |-> 1, product_id |-> 100, event_type |-> "purchase"],
      [user_id |-> 3, product_id |-> 107, event_type |-> "view"],
      [user_id |-> 3, product_id |-> 107, event_type |-> "click"] }

\* get_recommendations path parameters the clients send
RecUsers == {1, 3}

\* ----------------------------------------------------------- pure helpers

EmptyMap == [x \in {} |-> 0]

Range(s) == { s[i] : i \in DOMAIN s }

\* str.title() on the words the data holds
Title(w) ==
    CASE w = "samsung" -> "Samsung"
      [] w = "generic" -> "Generic"
      [] w = "bosch" -> "Bosch"
      [] w = "apple" -> "Apple"
      [] w = "lg" -> "Lg"
      [] w = "sony" -> "Sony"
      [] w = "hp" -> "Hp"
      [] w = "nan" -> "Nan"
      [] w = "smartphone" -> "Smartphone"
      [] w = "washer" -> "Washer"
      [] w = "notebook" -> "Notebook"
      [] w = "head_phone" -> "Head Phone"
      [] w = "tv" -> "Tv"
      [] OTHER -> w

\* The row of a logged entry after pd.concat: weight from weight_map, the
\* catalog columns NaN.
LogRow(e) ==
    [user_id |-> e.user_id, product_id |-> e.product_id,
     weight |-> weight_map(e.event_type),
     brand |-> NoValue, category_code |-> <<NoValue>>, price |-> NaN]

LogRows(logs) == [i \in 1..Len(logs) |-> LogRow(logs[i])]

\* One product_lookup value (lines 70-75)
LookupEntry(row) ==
    LET b == Title(row.brand)
        brand == IF b \in {"Nan", "Generic"} THEN "" ELSE b
        cat == Title(row.category_code[Len(row.category_code)])
    IN  [name |-> <<brand, cat>>,
         price |-> IF row.price # NaN THEN row.price ELSE 0,
         category |-> cat]

\* The loop of lines 67-75 run over df on the dictionary lookup: a product
\* gets the entry of its first row with a brand, unless it has one already.
RECURSIVE FillLookup(_, _, _)
FillLookup(lookup, df, i) ==
    IF i > Len(df) THEN lookup
    ELSE LET row == df[i]
             pid == row.product_id
         IN  IF pid \notin DOMAIN lookup /\ row.brand # NoValue
             THEN FillLookup([p \in DOMAIN lookup \cup {pid} |->
                                 IF p = pid THEN LookupEntry(row) ELSE lookup[p]],
                             df, i + 1)
             ELSE FillLookup(lookup, df, i + 1)

\* Codes numbered from the largest value down
CatCodes_Descending(values) == [v \in values |-> Cardinality({w \in values : w > v})]

\* astype("category").cat.codes: the rank of the value among the sorted
\* distinct values of the column.
CatCodes(values) == [v \in values |-> Cardinality({w \in values : w < v})]

UserIds(df) == { df[i].user_id : i \in DOMAIN df }

ProductIds(df) == { df[i].product_id : i \in DOMAIN df }

\* dict(zip(df['user_id'], df['user_idx']))
BuildUserToIdx(df) == CatCodes(UserIds(df))

\* dict(zip(df['product_id'], df['product_idx']))
BuildItemToIdx(df) == CatCodes(ProductIds(df))

\* dict(zip(df['product_idx'], df['product_id']))
BuildIdxToItem(df) ==
    LET codes == CatCodes(ProductIds(df))
    IN  [k \in { codes[p] : p \in ProductIds(df) } |->
            CHOOSE p \in ProductIds(df) : codes[p] = k]

\* Sum of the weights of the rows i.. of df that fall in cell (u, p):
\* coo_matrix(...).tocsr() sums duplicate coordinates.
RECURSIVE CellSum(_, _, _, _)
CellSum(df, u, p, i) ==
    IF i > Len(df) THEN 0
    ELSE IF df[i].user_id = u /\ df[i].product_id = p
         THEN AddW(df[i].weight, CellSum(df, u, p, i + 1))
         ELSE CellSum(df, u, p, i + 1)

\* The stored cells of coo_matrix((weight, (user_idx, product_idx))).tocsr()
BuildCells(df) ==
    LET ucode == CatCodes(UserIds(df))
        pcode == CatCodes(ProductIds(df))
        coords == { <<df[i].user_id, df[i].product_id>> : i \in DOMAIN df }
    IN  [c \in { <<ucode[x[1]], pcode[x[2]]>> : x \in coords } |->
            LET x == CHOOSE y \in coords : <<ucode[y[1]], pcode[y[2]]>> = c
            IN  CellSum(df, x[1], x[2], 1)]

NoMatrix == [none |-> TRUE, nU |-> 0, nI |-> 0, cells |-> EmptyMap]

NoModel == [none |-> TRUE, fitted |-> FALSE, nU |-> 0, nI |-> 0]

\* ------------------------------------------------------------- the files

\* LOG_FILE: absent, a JSON list of entries, or bytes json.load rejects
\* (an empty file after open(LOG_FILE, 'w'), or a short dump written over a
\* longer one).  size stands for the number of bytes the file holds.
MissingFile == [kind |-> "missing", entries |-> <<>>, size |-> 0]

TruncatedFile == [kind |-> "garbage", entries |-> <<>>, size |-> 0]

\* Bytes json.dump(..., indent=4) writes for one entry: the fixed part of
\* the record plus the letters of event_type.
EntrySize(e) ==
    CASE e.event_type = "view" -> 4
      [] e.event_type = "cart" -> 4
      [] e.event_type = "click" -> 5
      [] OTHER -> 8

RECURSIVE DumpSize(_)
DumpSize(logs) ==
    IF logs = <<>> THEN 0 ELSE EntrySize(Head(logs)) + 20 + DumpSize(Tail(logs))

JsonFile(logs) == [kind |-> "json", entries |-> logs, size |-> DumpSize(logs)]

\* A log file left by an earlier run of the server
PriorLog == << [user_id |-> 1, product_id |-> 100, event_type |-> "view", event_time |-> 0] >>

\* ----------------------------------------------------------------- state

Trainers == {"startup", "t1", "t2"}

RetrainWorkers == {"t1", "t2"}

RecWorkers == {"r1"}

LogWorkers == {"g1", "g2"}

VARIABLES
    dataExists,      \* os: DATA_FILE is there
    logFile,         \* os: LOG_FILE
    model,           \* global model (line 27)
    user_to_idx,     \* global user_to_idx (line 28)
    item_to_idx,     \* global item_to_idx (line 29)
    idx_to_item,     \* global idx_to_item (line 30)
    product_lookup,  \* global product_lookup (line 31)
    train_matrix,    \* global train_matrix (line 32)
    ver,             \* per global: the train_model run that last bound or filled it (0: module load)
    trainer,         \* per train_model caller: position, locals, response; before: the globals when
                     \* the call began; must: the entries logged before it began; merged: the
                     \* entries it read from LOG_FILE; prev: what the run begun just before
                     \* this one had read, and whether it had gone through by then
    rec,             \* per get_recommendations request: position, locals, response; seen: the
                     \* versions of the globals it has read
    logger,          \* per log_action request: position, locals, response
    committed,       \* entries of the log_action calls that have returned "Logged" (earlier runs of
                     \* the server included), in order of return
    calls            \* calls made so far: runs of train_model, log_action, trigger_retrain, get_recommendations

vars == <<dataExists, logFile, model, user_to_idx, item_to_idx, idx_to_item,
          product_lookup, train_matrix, ver, trainer, rec, logger, committed, calls>>

files == <<dataExists, logFile>>

globals == <<model, user_to_idx, item_to_idx, idx_to_item, product_lookup, train_matrix>>

\* The six globals as one value
Snapshot ==
    [model |-> model, user_to_idx |-> user_to_idx, item_to_idx |-> item_to_idx,
     idx_to_item |-> idx_to_item, product_lookup |-> product_lookup,
     train_matrix |-> train_matrix]

NoSnapshot ==
    [model |-> NoModel, user_to_idx |-> EmptyMap, item_to_idx |-> EmptyMap,
     idx_to_item |-> EmptyMap, product_lookup |-> EmptyMap, train_matrix |-> NoMatrix]

IdleTrainer ==
    [pc |-> "idle", run |-> 0, df |-> <<>>, resp |-> "none", trained |-> FALSE,
     before |-> NoSnapshot, must |-> {}, merged |-> <<>>,
     prev |-> [merged |-> <<>>, trained |-> FALSE]]

NoResponse == [type |-> "none", items |-> {}]

IdleRec ==
    [pc |-> "idle", user |-> 0, known |-> FALSE, uidx |-> 0, liked |-> {},
     ids |-> {}, resp |-> NoResponse, seen |-> {}]

\* (entry holds a record of the entries' shape until the first call sets it)
IdleLogger ==
    [pc |-> "idle", entry |-> PriorLog[1], logs |-> <<>>, status |-> "none", total_logs |-> 0]

TrainActive(t) == trainer[t].pc \notin {"idle", "returned", "raised"}

\* uvicorn serves requests once the startup handler has returned; a startup
\* handler that raises ends the process.
Serving == trainer["startup"].pc = "returned"

\* Module load (lines 27-32), the startup handler about to call train_model.
Init ==
    /\ dataExists \in BOOLEAN
    /\ logFile \in {MissingFile, TruncatedFile, JsonFile(PriorLog)}
    /\ model = NoModel
    /\ user_to_idx = EmptyMap
    /\ item_to_idx = EmptyMap
    /\ idx_to_item = EmptyMap
    /\ product_lookup = EmptyMap
    /\ train_matrix = NoMatrix
    /\ ver = [model |-> 0, user_to_idx |-> 0, item_to_idx |-> 0, idx_to_item |-> 0,
              product_lookup |-> 0, train_matrix |-> 0]
    /\ trainer = [t \in Trainers |->
                    IF t = "startup"
                    THEN [IdleTrainer EXCEPT !.pc = "l45", !.run = 1]
                    ELSE IdleTrainer]
    /\ rec = [r \in RecWorkers |-> IdleRec]
    /\ logger = [g \in LogWorkers |-> IdleLogger]
    /\ committed = IF logFile.kind = "json" THEN logFile.entries ELSE <<>>
    /\ calls = [train |-> 1, log |-> 0, retrain |-> 0, rec |-> 0]

\* ------------------------------------------------------------ train_model

\* trigger_retrain (lines 130-133): the handler calls train_model, whatever
\* else is running.
TriggerRetrain(t, maxCalls) ==
    /\ Serving
    /\ t \in RetrainWorkers
    /\ ~TrainActive(t)
    /\ calls.retrain < maxCalls
    /\ calls' = [calls EXCEPT !.retrain = @ + 1, !.train = @ + 1]
    /\ trainer' = [trainer EXCEPT ![t] =
                     [IdleTrainer EXCEPT !.pc = "l45", !.run = calls.train + 1,
                                         !.before = Snapshot,
                                         !.must = Range(committed),
                                         !.prev = LET s == CHOOSE x \in Trainers :
                                                             trainer[x].run = calls.train
                                                  IN  [merged |-> trainer[s].merged,
                                                       trained |-> trainer[s].trained]]]
    /\ UNCHANGED <<files, globals, ver, rec, logger, committed>>

\* A train_model call leaves with `outcome` (returned | raised); a
\* trigger_retrain handler then answers "Retrained" (line 135) or the
\* exception goes to the framework, which answers 500.
Leave(t, outcome, trained) ==
    trainer' = [trainer EXCEPT ![t].pc = outcome, ![t].df = <<>>,
                               ![t].trained = trained,
                               ![t].resp = IF t = "startup" THEN "none"
                                           ELSE IF outcome = "returned" THEN "Retrained"
                                           ELSE "error"]

\* lines 44-48: pd.read_csv(DATA_FILE); a missing file makes train_model return.
TrainLoad(t) ==
    /\ trainer[t].pc = "l45"
    /\ IF dataExists
       THEN trainer' = [trainer EXCEPT ![t].pc = "l51", ![t].df = History]
       ELSE Leave(t, "returned", FALSE)
    /\ UNCHANGED <<files, globals, ver, rec, logger, committed, calls>>

\* lines 51-62: merge the logged entries; a file json.load rejects is
\* reported and skipped, an empty list is skipped.
MergeLogs(df, file) ==
    IF file.kind = "json" /\ file.entries # <<>>
    THEN df \o LogRows(file.entries)
    ELSE df

TrainMerge(t) ==
    /\ trainer[t].pc = "l51"
    /\ trainer' = [trainer EXCEPT ![t].pc = "l66", ![t].df = MergeLogs(@, logFile),
                               ![t].merged = IF logFile.kind = "json" THEN logFile.entries
                                             ELSE <<>>]
    /\ UNCHANGED <<files, globals, ver, rec, logger, committed, calls>>

\* line 66: product_lookup = {}
TrainResetLookup(t) ==
    /\ trainer[t].pc = "l66"
    /\ product_lookup' = EmptyMap
    /\ ver' = [ver EXCEPT !.product_lookup = trainer[t].run]
    /\ trainer' = [trainer EXCEPT ![t].pc = "l67"]
    /\ UNCHANGED <<files, model, user_to_idx, item_to_idx, idx_to_item, train_matrix,
                   rec, logger, committed, calls>>

\* lines 67-75: the loop fills the dictionary the global names at that moment.
TrainFillLookup(t) ==
    /\ trainer[t].pc = "l67"
    /\ product_lookup' = FillLookup(product_lookup, trainer[t].df, 1)
    /\ ver' = [ver EXCEPT !.product_lookup = trainer[t].run]
    /\ trainer' = [trainer EXCEPT ![t].pc = "l82"]
    /\ UNCHANGED <<files, model, user_to_idx, item_to_idx, idx_to_item, train_matrix,
                   rec, logger, committed, calls>>

\* lines 79, 82
TrainUserIndex(t) ==
    /\ trainer[t].pc = "l82"
    /\ user_to_idx' = BuildUserToIdx(trainer[t].df)
    /\ ver' = [ver EXCEPT !.user_to_idx = trainer[t].run]
    /\ trainer' = [trainer EXCEPT ![t].pc = "l83"]
    /\ UNCHANGED <<files, model, item_to_idx, idx_to_item, product_lookup, train_matrix,
                   rec, logger, committed, calls>>

\* lines 80, 83
TrainItemIndex(t) ==
    /\ trainer[t].pc = "l83"
    /\ item_to_idx' = BuildItemToIdx(trainer[t].df)
    /\ ver' = [ver EXCEPT !.item_to_idx = trainer[t].run]
    /\ trainer' = [trainer EXCEPT ![t].pc = "l84"]
    /\ UNCHANGED <<files, model, user_to_idx, idx_to_item, product_lookup, train_matrix,
                   rec, logger, committed, calls>>

\* line 84
TrainIdxToItem(t) ==
    /\ trainer[t].pc = "l84"
    /\ idx_to_item' = BuildIdxToItem(trainer[t].df)
    /\ ver' = [ver EXCEPT !.idx_to_item = trainer[t].run]
    /\ trainer' = [trainer EXCEPT ![t].pc = "l87"]
    /\ UNCHANGED <<files, model, user_to_idx, item_to_idx, product_lookup, train_matrix,
                   rec, logger, committed, calls>>

\* lines 87-90: the shape is read from the globals; coo_matrix raises
\* ValueError when a coordinate of df lies outside it.
BuildMatrix(df, nU, nI) == [none |-> FALSE, nU |-> nU, nI |-> nI, cells |-> BuildCells(df)]

FitsShape(df, nU, nI) ==
    /\ Cardinality(UserIds(df)) <= nU
    /\ Cardinality(ProductIds(df)) <= nI

TrainMatrix(t) ==
    /\ trainer[t].pc = "l87"
    /\ LET nU == Cardinality(DOMAIN user_to_idx)
           nI == Cardinality(DOMAIN item_to_idx)
       IN  IF FitsShape(trainer[t].df, nU, nI)
           THEN /\ train_matrix' = BuildMatrix(trainer[t].df, nU, nI)
                /\ ver' = [ver EXCEPT !.train_matrix = trainer[t].run]
                /\ trainer' = [trainer EXCEPT ![t].pc = "l94"]
           ELSE /\ Leave(t, "raised", FALSE)
                /\ UNCHANGED <<train_matrix, ver>>
    /\ UNCHANGED <<files, model, user_to_idx, item_to_idx, idx_to_item, product_lookup,
                   rec, logger, committed, calls>>

\* line 94: model = AlternatingLeastSquares(...), not fitted yet
NewModel == [none |-> FALSE, fitted |-> FALSE, nU |-> 0, nI |-> 0]

TrainNewModel(t) ==
    /\ trainer[t].pc = "l94"
    /\ model' = NewModel
    /\ ver' = [ver EXCEPT !.model = trainer[t].run]
    /\ trainer' = [trainer EXCEPT ![t].pc = "l95"]
    /\ UNCHANGED <<files, user_to_idx, item_to_idx, idx_to_item, product_lookup, train_matrix,
                   rec, logger, committed, calls>>

HasNaN(m) == \E c \in DOMAIN m.cells : m.cells[c] = NaN

\* What model.fit(matrix) leaves in the object: factors for the matrix's
\* users and items.
Fitted(m) == [none |-> FALSE, fitted |-> TRUE, nU |-> m.nU, nI |-> m.nI]

\* line 95: model.fit(train_matrix * 10) on the object and the matrix the
\* globals name at that moment.  A NaN in the matrix reaches the factors,
\* where the library's check of the fit raises ModelFitError; the model
\* allows both that and a fit that goes through.
TrainFit(t) ==
    /\ trainer[t].pc = "l95"
    /\ \/ /\ model' = Fitted(train_matrix)
          /\ ver' = [ver EXCEPT !.model = trainer[t].run]
          /\ Leave(t, "returned", TRUE)
       \/ /\ HasNaN(train_matrix)
          /\ Leave(t, "raised", FALSE)
          /\ UNCHANGED <<model, ver>>
    /\ UNCHANGED <<files, user_to_idx, item_to_idx, idx_to_item, product_lookup, train_matrix,
                   rec, logger, committed, calls>>

TrainStep(t) ==
    \/ TrainLoad(t)
    \/ TrainMerge(t)
    \/ TrainResetLookup(t)
    \/ TrainFillLookup(t)
    \/ TrainUserIndex(t)
    \/ TrainItemIndex(t)
    \/ TrainIdxToItem(t)
    \/ TrainMatrix(t)
    \/ TrainNewModel(t)
    \/ TrainFit(t)

\* ------------------------------------------------------------- log_action

\* json.load of the file's content (lines 118-122): a missing file and
\* content json.load rejects (the bare except) both leave current_logs = [].
ReadLogs(file) == IF file.kind = "json" THEN file.entries ELSE <<>>

\* lines 115-124: build the entry (event_time from the clock, here the
\* number of the call), read the file, append.
LogRead(g, maxCalls, user_id, product_id, event_type) ==
    /\ Serving
    /\ logger[g].pc \in {"idle", "done"}
    /\ calls.log < maxCalls
    /\ LET entry == [user_id |-> user_id, product_id |-> product_id,
                     event_type |-> event_type, event_time |-> calls.log + 1]
       IN  logger' = [logger EXCEPT ![g] =
                        [pc |-> "l125", entry |-> entry,
                         logs |-> Append(ReadLogs(logFile), entry),
                         status |-> "none", total_logs |-> 0]]
    /\ calls' = [calls EXCEPT !.log = @ + 1]
    /\ UNCHANGED <<files, globals, ver, trainer, rec, committed>>

\* line 125: open(LOG_FILE, 'w') creates or empties the file.
LogOpen(g) ==
    /\ logger[g].pc = "l125"
    /\ logFile' = TruncatedFile
    /\ logger' = [logger EXCEPT ![g].pc = "l126"]
    /\ UNCHANGED <<dataExists, globals, ver, trainer, rec, committed, calls>>

\* What the file holds after `logs` is written from offset 0 of a handle
\* opened before the file got its present content: the dump, followed by
\* whatever of the present content lies beyond it.
Overwrite(file, logs) ==
    IF file.size > DumpSize(logs)
    THEN [kind |-> "garbage", entries |-> <<>>, size |-> file.size]
    ELSE JsonFile(logs)

\* A log_action that also enters its user in the index
LogDump_IndexesUser(g) ==
    /\ logger[g].pc = "l126"
    /\ logFile' = Overwrite(logFile, logger[g].logs)
    /\ logger' = [logger EXCEPT ![g].pc = "done", ![g].status = "Logged",
                                ![g].total_logs = Len(logger[g].logs),
                                ![g].logs = <<>>]
    /\ committed' = Append(committed, logger[g].entry)
    /\ user_to_idx' = [u \in DOMAIN user_to_idx \cup {logger[g].entry.user_id} |->
                         IF u \in DOMAIN user_to_idx THEN user_to_idx[u]
                         ELSE Cardinality(DOMAIN user_to_idx)]
    /\ UNCHANGED <<dataExists, model, item_to_idx, idx_to_item, product_lookup, train_matrix,
                   ver, trainer, rec, calls>>

\* lines 126-128: json.dump, close, return
LogDump(g) ==
    /\ logger[g].pc = "l126"
    /\ logFile' = Overwrite(logFile, logger[g].logs)
    /\ logger' = [logger EXCEPT ![g].pc = "done", ![g].status = "Logged",
                                ![g].total_logs = Len(logger[g].logs),
                                ![g].logs = <<>>]
    /\ committed' = Append(committed, logger[g].entry)
    /\ UNCHANGED <<dataExists, globals, ver, trainer, rec, calls>>

LogStep(g, maxCalls) ==
    \/ \E a \in LogInputs : LogRead(g, maxCalls, a.user_id, a.product_id, a.event_type)
    \/ LogOpen(g)
    \/ LogDump(g)

\* ----------------------------------------------------- get_recommendations

ErrorResponse == [type |-> "error", items |-> {}]

ColdStart == [type |-> "Popular (New User)", items |-> {}]

\* The cold-start test taken on the model instead of the index
IsNewUser_ModelUnset(user_id) == model.none

\* line 140
IsNewUser(user_id) == user_id \notin DOMAIN user_to_idx

\* lines 138-141
RecCheck(r, user_id) ==
    /\ Serving
    /\ rec[r].pc \in {"idle", "done"}
    /\ calls.rec < MaxRecCalls
    /\ calls' = [calls EXCEPT !.rec = @ + 1]
    /\ rec' = [rec EXCEPT ![r] =
                 IF IsNewUser(user_id)
                 THEN [IdleRec EXCEPT !.pc = "done", !.user = user_id, !.resp = ColdStart,
                                      !.seen = {ver.user_to_idx}]
                 ELSE [IdleRec EXCEPT !.pc = "l144", !.user = user_id, !.known = TRUE,
                                      !.seen = {ver.user_to_idx}]]
    /\ UNCHANGED <<files, globals, ver, trainer, logger, committed>>

\* An exception leaves the handler; the framework answers 500.
Fail(r) == rec' = [rec EXCEPT ![r].pc = "done", ![r].resp = ErrorResponse]

\* line 144: user_to_idx[user_id], the global read again
RecIndex(r) ==
    /\ rec[r].pc = "l144"
    /\ IF rec[r].user \in DOMAIN user_to_idx
       THEN rec' = [rec EXCEPT ![r].pc = "l148", ![r].uidx = user_to_idx[rec[r].user],
                               ![r].seen = @ \cup {ver.user_to_idx}]
       ELSE Fail(r)
    /\ UNCHANGED <<files, globals, ver, trainer, logger, committed, calls>>

\* The column indices stored in row u of the matrix
RowIndices(m, u) == { c[2] : c \in { d \in DOMAIN m.cells : d[1] = u } }

\* lines 148-150: train_matrix[user_idx]
RecRow(r) ==
    /\ rec[r].pc = "l148"
    /\ IF ~train_matrix.none /\ rec[r].uidx < train_matrix.nU
       THEN rec' = [rec EXCEPT ![r].pc = "l153",
                               ![r].liked = RowIndices(train_matrix, rec[r].uidx),
                               ![r].seen = @ \cup {ver.train_matrix}]
       ELSE Fail(r)
    /\ UNCHANGED <<files, globals, ver, trainer, logger, committed, calls>>

Min(a, b) == IF a < b THEN a ELSE b

\* model.recommend(user_idx, user_items=user_items, N=n): the n best-scoring
\* item indices of the fitted model, the stored columns of user_items
\* filtered out (filter_already_liked_items defaults to True).  The scores
\* are not modelled: any n of the remaining items may be the best.
TopN(m, liked, n) ==
    LET cand == (0 .. m.nI - 1) \ liked
    IN  { ids \in SUBSET cand : Cardinality(ids) = Min(n, Cardinality(cand)) }

\* The call needs a fitted model that has factors for the user.
CanRecommend(m, uidx) == ~m.none /\ m.fitted /\ uidx < m.nU

\* line 153
RecModel(r) ==
    /\ rec[r].pc = "l153"
    /\ \/ /\ CanRecommend(model, rec[r].uidx)
          /\ \E ids \in TopN(model, rec[r].liked, NRec) :
                rec' = [rec EXCEPT ![r].pc = "l157", ![r].ids = ids,
                                   ![r].seen = @ \cup {ver.model}]
       \/ /\ \/ ~CanRecommend(model, rec[r].uidx)
             \* a stored column the model has no item for: the filter writes
             \* outside the score buffer, which may or may not fault
             \/ \E i \in rec[r].liked : i >= model.nI
          /\ Fail(r)
    /\ UNCHANGED <<files, globals, ver, trainer, logger, committed, calls>>

\* lines 159-163: one item of the answer
FormatItem(pid, lookup) ==
    IF pid \in DOMAIN lookup
    THEN [id |-> pid, name |-> lookup[pid].name, price |-> <<"$", ToString(lookup[pid].price)>>,
          category |-> lookup[pid].category]
    ELSE [id |-> pid, name |-> <<"Item #", ToString(pid)>>, price |-> <<"Unknown">>,
          category |-> "General"]

\* lines 156-165
RecFormat(r) ==
    /\ rec[r].pc = "l157"
    /\ IF rec[r].ids \subseteq DOMAIN idx_to_item
       THEN rec' = [rec EXCEPT ![r].pc = "done",
                               ![r].resp = [type |-> "Personalized (AI)",
                                            items |-> { FormatItem(idx_to_item[i], product_lookup) :
                                                          i \in rec[r].ids }],
                               ![r].seen = @ \cup {ver.idx_to_item, ver.product_lookup}]
       ELSE Fail(r)
    /\ UNCHANGED <<files, globals, ver, trainer, logger, committed, calls>>

RecStep(r) ==
    \/ \E u \in RecUsers : RecCheck(r, u)
    \/ RecIndex(r)
    \/ RecRow(r)
    \/ RecModel(r)
    \/ RecFormat(r)

\* ------------------------------------------------------- specifications

\* The service with one client of each kind: the startup run, one
\* trigger_retrain client, one log_action client, one get_recommendations
\* client, all interleaved.
Next ==
    \/ \E t \in {"t1"} : TriggerRetrain(t, MaxServeRetrainCalls)
    \/ \E t \in {"startup", "t1"} : TrainStep(t)
    \/ \E g \in {"g1"} : LogStep(g, MaxServeLogCalls)
    \/ \E r \in RecWorkers : RecStep(r)

Spec == Init /\ [][Next]_vars

\* The same without the get_recommendations client, with more calls.
NextBuild ==
    \/ \E t \in {"t1"} : TriggerRetrain(t, MaxRetrainCalls)
    \/ \E t \in {"startup", "t1"} : TrainStep(t)
    \/ \E g \in {"g1"} : LogStep(g, MaxLogCalls)

SpecBuild == Init /\ [][NextBuild]_vars

\* Two trigger_retrain clients at once.
NextRetrain ==
    \/ \E t \in RetrainWorkers : TriggerRetrain(t, MaxRetrainCalls)
    \/ \E t \in Trainers : TrainStep(t)

SpecRetrain == Init /\ [][NextRetrain]_vars

\* Two trigger_retrain clients and a log_action client.
NextOverlap ==
    \/ \E t \in RetrainWorkers : TriggerRetrain(t, MaxRetrainCalls)
    \/ \E t \in Trainers : TrainStep(t)
    \/ \E g \in {"g1"} : LogStep(g, MaxServeLogCalls)

SpecOverlap == Init /\ [][NextOverlap]_vars

\* Two trigger_retrain clients calling again and again, and one log_action
\* request (a cart event of user 1 on product 100).
NextRepeat ==
    \/ \E t \in RetrainWorkers : TriggerRetrain(t, MaxRepeatCalls)
    \/ \E t \in Trainers : TrainStep(t)
    \/ \E g \in {"g1"} :
          \/ LogRead(g, MaxServeLogCalls, 1, 100, "cart")
          \/ LogOpen(g)
          \/ LogDump(g)

SpecRepeat == Init /\ [][NextRepeat]_vars

\* Two log_action clients at once.
NextLog ==
    \/ TrainStep("startup")
    \/ \E g \in LogWorkers : LogStep(g, MaxLogCalls)

SpecLog == Init /\ [][NextLog]_vars

\* ------------------------------------------------------------ properties

ValidEvents == {"view", "cart", "purchase"}

\* C1: retrain atomicity -- every global a get_recommendations call has
\* read (user_to_idx, train_matrix, model, idx_to_item, product_lookup)
\* was bound by one and the same train_model run.
C1_RetrainAtomicity == \A r \in RecWorkers : Cardinality(rec[r].seen) <= 1

\* C2: at most one train_model run is executing at any time (a
\* trigger_retrain arriving during a run is rejected and runs nothing).
C2_SingleRetrain == Cardinality({ t \in Trainers : TrainActive(t) }) <= 1

\* C3: a get_recommendations call for a user id it found in user_to_idx
\* answers "Personalized (AI)" with at most N = 5 items, none of them an
\* item stored in that user's row of train_matrix.
C3_KnownUserPersonalized ==
    \A r \in RecWorkers :
        (rec[r].pc = "done" /\ rec[r].known) =>
            /\ rec[r].resp.type = "Personalized (AI)"
            /\ Cardinality(rec[r].resp.items) <= NRec
            /\ rec[r].ids \cap rec[r].liked = {}

\* C4: in every state, a get_recommendations call for a user id absent
\* from user_to_idx answers {type: "Popular (New User)", items: []} and
\* raises nothing.
C4_ColdStart ==
    [][\A r \in RecWorkers :
          (/\ rec[r].pc \in {"idle", "done"}
           /\ rec'[r].pc # "idle"
           /\ rec'[r] # rec[r]
           /\ rec'[r].user \notin DOMAIN user_to_idx)
          => (rec'[r].pc = "done" /\ rec'[r].resp = ColdStart)]_vars

\* C4 happens: a cold-start answer given while a retrain is running on a
\* trained server.
C4_Witness ==
    \E r \in RecWorkers :
        /\ rec[r].pc = "done"
        /\ rec[r].resp = ColdStart
        /\ rec[r].user \notin DOMAIN user_to_idx
        /\ user_to_idx # EmptyMap
        /\ TrainActive("t1")

\* The weight DATA_FILE gives the pair (u, p)
HistWeight(u, p) == CellSum(History, u, p, 1)

\* The weight weight_map gives the valid entries of the set S for (u, p)
RECURSIVE LoggedWeight(_, _, _)
LoggedWeight(S, u, p) ==
    IF S = {} THEN 0
    ELSE LET e == CHOOSE x \in S : TRUE
         IN  (IF e.user_id = u /\ e.product_id = p /\ e.event_type \in ValidEvents
              THEN weight_map(e.event_type) ELSE 0)
             + LoggedWeight(S \ {e}, u, p)

\* The cell of train_matrix for the raw pair (u, p): 0 when nothing is stored
Cell(u, p) ==
    IF u \in DOMAIN user_to_idx /\ p \in DOMAIN item_to_idx
       /\ <<user_to_idx[u], item_to_idx[p]>> \in DOMAIN train_matrix.cells
    THEN train_matrix.cells[<<user_to_idx[u], item_to_idx[p]>>]
    ELSE 0

\* C5: once a trigger_retrain that began after a log_action returned
\* "Logged" (valid event_type) has run train_model to its end, the user is
\* in user_to_idx and the pair's cell holds the historical weight plus the
\* logged weights (a cell that is NaN is not held against the claim here).
C5_LoggedThenRetrained ==
    \A t \in RetrainWorkers :
        (trainer[t].pc = "returned" /\ trainer[t].trained) =>
            \A e \in trainer[t].must :
                e.event_type \in ValidEvents =>
                    /\ e.user_id \in DOMAIN user_to_idx
                    /\ \/ Cell(e.user_id, e.product_id) = NaN
                       \/ Cell(e.user_id, e.product_id) >=
                            HistWeight(e.user_id, e.product_id)
                            + LoggedWeight(trainer[t].must, e.user_id, e.product_id)

\* s is t with some elements left out, order kept
RECURSIVE IsSubsequence(_, _)
IsSubsequence(s, t) ==
    IF s = <<>> THEN TRUE
    ELSE IF t = <<>> THEN FALSE
    ELSE IF Head(s) = Head(t) THEN IsSubsequence(Tail(s), Tail(t))
    ELSE IsSubsequence(s, Tail(t))

\* C6: the log is append-only -- whenever the file holds a JSON list, every
\* entry an earlier log_action call wrote is in it, unchanged and in order.
C6_AppendOnly == logFile.kind = "json" => IsSubsequence(committed, logFile.entries)

\* C7: log appends are serialized -- once all log_action calls have
\* returned, each call's entry is in the file and the total_logs values
\* they returned are distinct.
C7_SerializedAppends ==
    (\A g \in LogWorkers : logger[g].pc = "done") =>
        /\ logFile.kind = "json"
        /\ \A g \in LogWorkers : logger[g].entry \in Range(logFile.entries)
        /\ \A g, h \in LogWorkers : g # h => logger[g].total_logs # logger[h].total_logs

\* C8: a log_action request whose event_type is not view, cart or purchase
\* is rejected, and no entry for it gets into the log.
C8_EventKindValidated ==
    /\ \A g \in LogWorkers :
          (logger[g].pc = "done" /\ logger[g].entry.event_type \notin ValidEvents)
             => logger[g].status # "Logged"
    /\ \A e \in Range(logFile.entries) : e.event_type \in ValidEvents

\* C9: a train_model run that raised left model, user_to_idx, item_to_idx,
\* idx_to_item, product_lookup and train_matrix as they were when it began.
C9_FailedRetrainKeepsSnapshot ==
    \A t \in RetrainWorkers : trainer[t].pc = "raised" => Snapshot = trainer[t].before

\* C10: trigger_retrain answers "Retrained" only when its train_model run
\* went through to the end and published a snapshot.
C10_RetrainedMeansPublished ==
    \A t \in RetrainWorkers : trainer[t].resp = "Retrained" => trainer[t].trained

\* C11: with DATA_FILE missing at startup the server does not come up --
\* in no state has the startup handler finished, so that requests are
\* accepted, while model is None.
C11_NoServingWithoutModel == ~(Serving /\ model.none)

\* C12: log_action never touches the snapshot -- every step of a
\* log_action call leaves model, user_to_idx, item_to_idx, idx_to_item,
\* product_lookup and train_matrix as they are.
C12_LogActionFrame ==
    [][(\E g \in LogWorkers : logger'[g] # logger[g]) => globals' = globals]_vars

\* C12 happens: on a trained server a log_action for a user the index does
\* not hold has returned "Logged", and the index still does not hold them.
C12_Witness ==
    \E g \in LogWorkers :
        /\ logger[g].pc = "done"
        /\ logger[g].status = "Logged"
        /\ model.fitted
        /\ user_to_idx # EmptyMap
        /\ logger[g].entry.user_id \notin DOMAIN user_to_idx

\* The train_model run of t is the last one begun
LatestRun(t) == trainer[t].run = calls.train

\* The globals hold what DATA_FILE alone gives: its users and products in
\* the index, its weights in the matrix, a model fitted on that matrix.
HistoryOnlySnapshot ==
    /\ DOMAIN user_to_idx = UserIds(History)
    /\ DOMAIN item_to_idx = ProductIds(History)
    /\ { idx_to_item[k] : k \in DOMAIN idx_to_item } = ProductIds(History)
    /\ ~train_matrix.none
    /\ train_matrix.nU = Cardinality(UserIds(History))
    /\ train_matrix.nI = Cardinality(ProductIds(History))
    /\ Cardinality(DOMAIN train_matrix.cells)
         = Cardinality({ <<History[i].user_id, History[i].product_id>> : i \in DOMAIN History })
    /\ \A i \in DOMAIN History :
          Cell(History[i].user_id, History[i].product_id)
            = HistWeight(History[i].user_id, History[i].product_id)
    /\ model.fitted
    /\ model.nU = train_matrix.nU
    /\ model.nI = train_matrix.nI

\* C13: a train_model run that found LOG_FILE missing, empty or
\* unparseable is not aborted, and when it has returned the index and the
\* matrix are those of the historical dataset alone.
C13_HistoryAloneWithoutLog ==
    \A t \in Trainers :
        (dataExists /\ LatestRun(t) /\ trainer[t].merged = <<>>) =>
            /\ trainer[t].pc # "raised"
            /\ trainer[t].pc = "returned" => (trainer[t].trained /\ HistoryOnlySnapshot)

\* C14: no undefined weight is published -- every stored cell of
\* train_matrix is a defined, non-negative weight, and a train_model run
\* that merged an entry without a weight (event_type outside weight_map)
\* does not go through.
C14_NoUndefinedWeightPublished ==
    /\ \A c \in DOMAIN train_matrix.cells :
          train_matrix.cells[c] # NaN /\ train_matrix.cells[c] >= 0
    /\ \A t \in Trainers :
          trainer[t].trained =>
              \A e \in Range(trainer[t].merged) : e.event_type \in ValidEvents

\* The weight the specification gives a logged event
EventWeight(event_type) ==
    CASE event_type = "view" -> 1
      [] event_type = "cart" -> 10
      [] event_type = "purchase" -> 50

\* Sum of f over the finite set S
RECURSIVE SumOver(_, _)
SumOver(S, f) ==
    IF S = {} THEN 0
    ELSE LET x == CHOOSE y \in S : TRUE IN f[x] + SumOver(S \ {x}, f)

\* Sum of the weights of the historical records of the pair (u, p)
HistoryTotal(u, p) ==
    LET I == { i \in DOMAIN History : History[i].user_id = u /\ History[i].product_id = p }
    IN  SumOver(I, [i \in I |-> History[i].weight])

\* Sum of the weights of the entries of logs for the pair (u, p)
LoggedTotal(logs, u, p) ==
    LET I == { i \in DOMAIN logs : logs[i].user_id = u /\ logs[i].product_id = p }
    IN  SumOver(I, [i \in I |-> EventWeight(logs[i].event_type)])

\* The pairs of the historical records and of the entries of logs
Pairs(logs) ==
    { <<History[i].user_id, History[i].product_id>> : i \in DOMAIN History }
      \cup { <<logs[i].user_id, logs[i].product_id>> : i \in DOMAIN logs }

\* C15: weights accumulate by summation -- when a train_model run has
\* gone through, the cell of every pair whose logged events are view, cart
\* or purchase holds the sum of the weights of the pair's historical
\* records and of the pair's entries in the log the run read (1, 10, 50).
C15_WeightsSum ==
    \A t \in Trainers :
        (trainer[t].pc = "returned" /\ trainer[t].trained /\ LatestRun(t)) =>
            \A x \in Pairs(trainer[t].merged) :
                (\A e \in Range(trainer[t].merged) :
                     (e.user_id = x[1] /\ e.product_id = x[2]) => e.event_type \in ValidEvents)
                => Cell(x[1], x[2])
                     = HistoryTotal(x[1], x[2]) + LoggedTotal(trainer[t].merged, x[1], x[2])

\* f is a bijection from the set ids onto 0 .. |ids| - 1
IsDenseIndex(f, ids) ==
    /\ DOMAIN f = ids
    /\ { f[x] : x \in ids } = 0 .. Cardinality(ids) - 1
    /\ \A x, y \in ids : f[x] = f[y] => x = y

\* The user ids and the product ids of DATA_FILE and of the entries of logs
MergedUsers(logs) == UserIds(History) \cup { logs[i].user_id : i \in DOMAIN logs }

MergedProducts(logs) == ProductIds(History) \cup { logs[i].product_id : i \in DOMAIN logs }

\* C16: when a train_model run has gone through, user_to_idx and
\* item_to_idx are bijections from the user ids and the product ids of the
\* merged data onto 0..|users|-1 and 0..|items|-1, and idx_to_item is the
\* inverse of item_to_idx.
C16_DenseBijections ==
    \A t \in Trainers :
        (trainer[t].pc = "returned" /\ trainer[t].trained /\ LatestRun(t)) =>
            /\ IsDenseIndex(user_to_idx, MergedUsers(trainer[t].merged))
            /\ IsDenseIndex(item_to_idx, MergedProducts(trainer[t].merged))
            /\ DOMAIN idx_to_item = { item_to_idx[p] : p \in DOMAIN item_to_idx }
            /\ \A p \in DOMAIN item_to_idx : idx_to_item[item_to_idx[p]] = p

\* The (user, product) pairs of the historical then the logged records, in order
Stream(logs) ==
    [i \in 1 .. Len(History) |-> <<History[i].user_id, History[i].product_id>>]
      \o [i \in 1 .. Len(logs) |-> <<logs[i].user_id, logs[i].product_id>>]

\* Position of the first record of stream whose k-th field is id
FirstSeen(stream, k, id) ==
    CHOOSE i \in DOMAIN stream :
        /\ stream[i][k] = id
        /\ \A j \in 1 .. i - 1 : stream[j][k] # id

\* C17 (as stated): dense indices follow first-seen order -- when a
\* train_model run has gone through, an id whose first record comes before
\* another id's first record in the stream of historical then logged
\* records has the smaller index.
C17_FirstSeenOrder ==
    \A t \in Trainers :
        (trainer[t].pc = "returned" /\ trainer[t].trained /\ LatestRun(t)) =>
            LET stream == Stream(trainer[t].merged)
            IN  /\ \A a, b \in DOMAIN user_to_idx \cap { stream[i][1] : i \in DOMAIN stream } :
                      FirstSeen(stream, 1, a) < FirstSeen(stream, 1, b)
                          => user_to_idx[a] < user_to_idx[b]
                /\ \A a, b \in DOMAIN item_to_idx \cap { stream[i][2] : i \in DOMAIN stream } :
                      FirstSeen(stream, 2, a) < FirstSeen(stream, 2, b)
                          => item_to_idx[a] < item_to_idx[b]

\* C17 (amended): dense indices follow the order of the raw ids -- in
\* every state, of two user ids (likewise product ids) in the index the
\* smaller id has the smaller index, whatever the order of their records.
C17_AscendingIdOrder ==
    /\ \A a, b \in DOMAIN user_to_idx : a < b => user_to_idx[a] < user_to_idx[b]
    /\ \A a, b \in DOMAIN item_to_idx : a < b => item_to_idx[a] < item_to_idx[b]
    /\ \A j, k \in DOMAIN idx_to_item : j < k => idx_to_item[j] < idx_to_item[k]

\* C17 happens: a retrain that merged a logged user and product has gone
\* through, and user 2, whose record is the first of DATA_FILE, has a
\* larger index than user 1, and product 105 of that record is not at 0.
C17_Witness ==
    /\ trainer["t1"].pc = "returned"
    /\ trainer["t1"].trained
    /\ LatestRun("t1")
    /\ 3 \in DOMAIN user_to_idx
    /\ 107 \in DOMAIN item_to_idx
    /\ History[1].user_id = 2
    /\ user_to_idx[1] < user_to_idx[2]
    /\ item_to_idx[History[1].product_id] > 0

\* The five globals of C18 in the state and when the call of t began
SameAsBefore(t) ==
    /\ user_to_idx = trainer[t].before.user_to_idx
    /\ item_to_idx = trainer[t].before.item_to_idx
    /\ idx_to_item = trainer[t].before.idx_to_item
    /\ product_lookup = trainer[t].before.product_lookup
    /\ train_matrix = trainer[t].before.train_matrix

\* The run of t and the run before it have both gone through, one after
\* the other, and read the same log; no other run is in progress
ConsecutiveRunsSameLog(t) ==
    /\ \A x \in Trainers : ~TrainActive(x)
    /\ trainer[t].pc = "returned"
    /\ trainer[t].trained
    /\ LatestRun(t)
    /\ trainer[t].prev.trained
    /\ trainer[t].prev.merged = trainer[t].merged

\* C18: idempotent rebuild -- of two consecutive train_model runs that
\* went through on the same DATA_FILE and the same log, the second leaves
\* user_to_idx, item_to_idx, idx_to_item, product_lookup and train_matrix
\* as the first left them, and every logged event (view, cart, purchase)
\* is in its cell once.
C18_IdempotentRebuild ==
    \A t \in RetrainWorkers :
        ConsecutiveRunsSameLog(t) =>
            /\ SameAsBefore(t)
            /\ \A x \in Pairs(trainer[t].merged) :
                  (\A e \in Range(trainer[t].merged) :
                       (e.user_id = x[1] /\ e.product_id = x[2]) => e.event_type \in ValidEvents)
                  => Cell(x[1], x[2])
                       = HistoryTotal(x[1], x[2]) + LoggedTotal(trainer[t].merged, x[1], x[2])

\* The globals fit together: a fitted model, a matrix of the shape of the
\* two indices, an idx_to_item entry for every item index
ConsistentSnapshot ==
    /\ ~model.none
    /\ model.fitted
    /\ ~train_matrix.none
    /\ train_matrix.nU = Cardinality(DOMAIN user_to_idx)
    /\ train_matrix.nI = Cardinality(DOMAIN item_to_idx)
    /\ \A k \in 0 .. Cardinality(DOMAIN item_to_idx) - 1 : k \in DOMAIN idx_to_item

\* C19: in every state in which no train_model run is in progress,
\* either user_to_idx is empty or the globals fit together (so that
\* get_recommendations for a known user finds a fitted model and every
\* idx_to_item entry it looks up).
C19_ConsistentWhenIdle ==
    (\A t \in Trainers : ~TrainActive(t)) =>
        (user_to_idx = EmptyMap \/ ConsistentSnapshot)
====
